---- MODULE Spec2Model ----
(***************************************************************************)
(* Model of DrumMachinePlugin (src/src/DrumMachinePlugin.cpp): the JUCE    *)
(* AudioProcessor wrapper around DSP::DrumMachinePureDSP.                  *)
(*                                                                         *)
(* Floats are modelled as integers scaled by 100 (120.0f is 12000, -0.04f  *)
(* is -4): every literal of the source has at most two decimals.           *)
(***************************************************************************)
EXTENDS Integers, Sequences, FiniteSets, TLC

VARIABLES
    params,             \* the juce::AudioParameterFloat cells, by parameter id
    factoryPresets,     \* std::vector<Preset>, indexed from 0
    currentPreset,      \* Preset currentPreset (a copy)
    currentPresetIndex, \* int currentPresetIndex
    sampleRate,         \* double sampleRate
    engine,             \* drumMachine: last value configured under each name
    prepared,           \* drumMachine: prepared / not prepared
    calls,              \* calls made on drumMachine by the last operation
    op,                 \* the last host call: its name, arguments and results
    ctl,                \* control context: where a setCurrentProgram in progress stands
    rt                  \* render context: the cell it read last and the value it got

vars == <<params, factoryPresets, currentPreset, currentPresetIndex, sampleRate,
          engine, prepared, calls, op, ctl, rt>>

\* the positions of the two contexts
contexts == <<ctl, rt>>

(***************************************************************************)
(* Bounds and inputs of the host.                                          *)
(***************************************************************************)
MaxMidiEvents == 2

MaxRenamed == 1

NumTracks == 16

\* value of an engine parameter the plugin has not configured yet
Unset == -1

TrackVolumeId(i) == "trackVolume_" \o ToString(i)

TrackVolumeIds == {TrackVolumeId(i) : i \in 0..(NumTracks - 1)}

\* ids of the 16 global parameters, in registration order
ScalarIds ==
    <<"tempo", "swing", "master", "patternLength",
      "pocketOffset", "pushOffset", "pullOffset",
      "dillaAmount", "dillaHatBias", "dillaSnareLate", "dillaKickTight", "dillaMaxDrift",
      "structure", "stereoWidth", "roomWidth", "effectsWidth">>

ScalarIdSet == {ScalarIds[k] : k \in 1..Len(ScalarIds)}

ParamIds == ScalarIdSet \cup TrackVolumeIds

\* the 13 fields of struct Preset, in declaration order
PresetFields ==
    <<"tempo", "swing", "masterVolume", "pocketOffset", "pushOffset", "pullOffset",
      "dillaAmount", "dillaHatBias", "dillaSnareLate", "dillaKickTight", "dillaMaxDrift",
      "structure", "stereoWidth">>

PresetFieldSet == {PresetFields[k] : k \in 1..Len(PresetFields)}

\* the registry id of the parameter a preset field (an engine name) corresponds to
RegistryId(name) == IF name = "masterVolume" THEN "master" ELSE name

\* the engine name updateDSPParameters pushes a registry id under
EngineName(id) == IF id = "master" THEN "masterVolume" ELSE id

EngineNames == {EngineName(id) : id \in ParamIds}

PresetOwnedIds == {RegistryId(f) : f \in PresetFieldSet}

(***************************************************************************)
(* The parameters registered by the constructor: range and default.        *)
(***************************************************************************)
Range(lo, hi, def) == [min |-> lo, max |-> hi, def |-> def]

Registered ==
    [id \in ParamIds |->
        CASE id = "tempo"          -> Range(6000, 20000, 12000)
          [] id = "swing"          -> Range(0, 100, 0)
          [] id = "master"         -> Range(0, 100, 80)
          [] id = "patternLength"  -> Range(100, 1600, 1600)
          [] id = "pocketOffset"   -> Range(-10, 10, 0)
          [] id = "pushOffset"     -> Range(-10, 10, -4)
          [] id = "pullOffset"     -> Range(-10, 10, 6)
          [] id = "dillaAmount"    -> Range(0, 100, 60)
          [] id = "dillaHatBias"   -> Range(0, 100, 55)
          [] id = "dillaSnareLate" -> Range(0, 100, 80)
          [] id = "dillaKickTight" -> Range(0, 100, 70)
          [] id = "dillaMaxDrift"  -> Range(0, 30, 15)
          [] id = "structure"      -> Range(0, 100, 50)
          [] id = "stereoWidth"    -> Range(0, 100, 50)
          [] id = "roomWidth"      -> Range(0, 100, 30)
          [] id = "effectsWidth"   -> Range(0, 100, 70)
          [] OTHER                 -> Range(0, 100, 80)]

DefaultParams == [id \in ParamIds |-> Registered[id].def]

\* variant: a store that is not atomic, the cell keeps part of its old value
tornStore(old, new) == (new \div 16) * 16 + (old % 16)

\* the cell of an AudioParameterFloat is a std::atomic<float>: a store replaces
\* the whole value, a load returns the whole value
atomicStore(old, new) == new

atomicLoad(cell) == cell

\* AudioParameterFloat::operator= : the value is snapped into the declared range
\* a cell that keeps whatever value it is handed
StoreUnclamped(id, v) == v

Store(id, v) ==
    IF v < Registered[id].min THEN Registered[id].min
    ELSE IF v > Registered[id].max THEN Registered[id].max
    ELSE v

(***************************************************************************)
(* loadFactoryPresets: the ten literal presets.                            *)
(***************************************************************************)
Preset0 ==
    [name |-> "Basic 808", tempo |-> 12000, swing |-> 0, masterVolume |-> 80,
     pocketOffset |-> 0, pushOffset |-> -4, pullOffset |-> 6, dillaAmount |-> 0,
     dillaHatBias |-> 50, dillaSnareLate |-> 50, dillaKickTight |-> 90,
     dillaMaxDrift |-> 5, structure |-> 30, stereoWidth |-> 50]

Preset1 ==
    [name |-> "J Dilla Style", tempo |-> 9500, swing |-> 60, masterVolume |-> 80,
     pocketOffset |-> 0, pushOffset |-> -5, pullOffset |-> 8, dillaAmount |-> 70,
     dillaHatBias |-> 60, dillaSnareLate |-> 90, dillaKickTight |-> 60,
     dillaMaxDrift |-> 12, structure |-> 60, stereoWidth |-> 60]

Preset2 ==
    [name |-> "Tight House", tempo |-> 12800, swing |-> 0, masterVolume |-> 85,
     pocketOffset |-> 0, pushOffset |-> 0, pullOffset |-> 0, dillaAmount |-> 0,
     dillaHatBias |-> 50, dillaSnareLate |-> 50, dillaKickTight |-> 100,
     dillaMaxDrift |-> 1, structure |-> 20, stereoWidth |-> 40]

Preset3 ==
    [name |-> "Loose Hip Hop", tempo |-> 9200, swing |-> 55, masterVolume |-> 80,
     pocketOffset |-> 2, pushOffset |-> -3, pullOffset |-> 7, dillaAmount |-> 50,
     dillaHatBias |-> 55, dillaSnareLate |-> 70, dillaKickTight |-> 50,
     dillaMaxDrift |-> 10, structure |-> 50, stereoWidth |-> 70]

Preset4 ==
    [name |-> "Drum & Bass", tempo |-> 17400, swing |-> 10, masterVolume |-> 80,
     pocketOffset |-> 0, pushOffset |-> -2, pullOffset |-> 2, dillaAmount |-> 30,
     dillaHatBias |-> 50, dillaSnareLate |-> 60, dillaKickTight |-> 80,
     dillaMaxDrift |-> 5, structure |-> 70, stereoWidth |-> 80]

Preset5 ==
    [name |-> "IDM Drill", tempo |-> 16000, swing |-> 40, masterVolume |-> 75,
     pocketOffset |-> 0, pushOffset |-> -6, pullOffset |-> 10, dillaAmount |-> 80,
     dillaHatBias |-> 60, dillaSnareLate |-> 90, dillaKickTight |-> 40,
     dillaMaxDrift |-> 20, structure |-> 90, stereoWidth |-> 90]

Preset6 ==
    [name |-> "Techno", tempo |-> 13000, swing |-> 0, masterVolume |-> 90,
     pocketOffset |-> 0, pushOffset |-> 0, pullOffset |-> 0, dillaAmount |-> 0,
     dillaHatBias |-> 50, dillaSnareLate |-> 50, dillaKickTight |-> 100,
     dillaMaxDrift |-> 0, structure |-> 40, stereoWidth |-> 60]

Preset7 ==
    [name |-> "Afrobeat", tempo |-> 11000, swing |-> 30, masterVolume |-> 80,
     pocketOffset |-> 0, pushOffset |-> -1, pullOffset |-> 3, dillaAmount |-> 20,
     dillaHatBias |-> 50, dillaSnareLate |-> 50, dillaKickTight |-> 70,
     dillaMaxDrift |-> 8, structure |-> 50, stereoWidth |-> 70]

Preset8 ==
    [name |-> "Breakbeat", tempo |-> 14000, swing |-> 50, masterVolume |-> 80,
     pocketOffset |-> 1, pushOffset |-> -4, pullOffset |-> 8, dillaAmount |-> 60,
     dillaHatBias |-> 55, dillaSnareLate |-> 70, dillaKickTight |-> 50,
     dillaMaxDrift |-> 12, structure |-> 70, stereoWidth |-> 80]

Preset9 ==
    [name |-> "Minimal", tempo |-> 12500, swing |-> 0, masterVolume |-> 70,
     pocketOffset |-> 0, pushOffset |-> 0, pullOffset |-> 0, dillaAmount |-> 0,
     dillaHatBias |-> 50, dillaSnareLate |-> 50, dillaKickTight |-> 100,
     dillaMaxDrift |-> 0, structure |-> 10, stereoWidth |-> 30]

\* factoryPresets.clear() followed by the ten push_back calls
loadFactoryPresets ==
    [i \in 0..9 |->
        CASE i = 0 -> Preset0 [] i = 1 -> Preset1 [] i = 2 -> Preset2
          [] i = 3 -> Preset3 [] i = 4 -> Preset4 [] i = 5 -> Preset5
          [] i = 6 -> Preset6 [] i = 7 -> Preset7 [] i = 8 -> Preset8
          [] OTHER -> Preset9]

\* static_cast<int>(factoryPresets.size())
Size(table) == Cardinality(DOMAIN table)

\* the ten presets in the order loadFactoryPresets pushes them
FactoryLiterals ==
    <<Preset0, Preset1, Preset2, Preset3, Preset4, Preset5, Preset6, Preset7,
      Preset8, Preset9>>

\* variant: the table is left as it is
clearNothing(table) == table

\* factoryPresets.clear()
clear(table) == <<>>

\* factoryPresets.push_back(preset): the table indexed from 0 with one more entry
push_back(table, preset) ==
    [i \in 0..Size(table) |-> IF i < Size(table) THEN table[i] ELSE preset]

RECURSIVE pushAll(_, _)
pushAll(table, presets) ==
    IF presets = <<>> THEN table
    ELSE pushAll(push_back(table, Head(presets)), Tail(presets))

\* loadFactoryPresets() run on a table that already has entries
loadFactoryPresetsInto(table) == pushAll(clear(table), FactoryLiterals)

\* the index guard shared by the program interface
IndexInRange(index, table) == index >= 0 /\ index < Size(table)

(***************************************************************************)
(* Calls on the engine.                                                    *)
(***************************************************************************)
SetParameterCall(name, value) == [fn |-> "setParameter", name |-> name, value |-> value]

PrepareCall(sr, n) == [fn |-> "prepare", name |-> "", value |-> sr]

ResetCall == [fn |-> "reset", name |-> "", value |-> 0]

ProcessCall == [fn |-> "process", name |-> "", value |-> 2]

\* applyPresetToDSP: thirteen drumMachine.setParameter calls, nothing else
applyPresetCalls(preset) ==
    [k \in 1..Len(PresetFields) |-> SetParameterCall(PresetFields[k], preset[PresetFields[k]])]

applyPresetToDSP(eng, preset) ==
    [n \in DOMAIN eng |-> IF n \in PresetFieldSet THEN preset[n] ELSE eng[n]]

\* updateDSPParameters: sixteen globals, then the sixteen track volumes
updateDSPCalls(p) ==
    [k \in 1..(Len(ScalarIds) + NumTracks) |->
        IF k <= Len(ScalarIds)
        THEN SetParameterCall(EngineName(ScalarIds[k]), p[ScalarIds[k]])
        ELSE SetParameterCall(TrackVolumeId(k - Len(ScalarIds) - 1),
                              p[TrackVolumeId(k - Len(ScalarIds) - 1)])]

\* variant: only the sixteen globals are pushed, the track volumes are skipped
updateDSPParametersGlobals(eng, p) ==
    [n \in DOMAIN eng |-> IF n \in TrackVolumeIds THEN eng[n] ELSE p[RegistryId(n)]]

updateDSPParameters(eng, p) ==
    [n \in DOMAIN eng |-> p[RegistryId(n)]]

(***************************************************************************)
(* MIDI: a message is its status nibble and two data bytes.                *)
(***************************************************************************)
NoteOnStatus == 144

NoteOffStatus == 128

ControllerStatus == 176

MidiMessage(status, d1, d2) == [status |-> status, data1 |-> d1, data2 |-> d2]

\* variant: note-offs are taken for note-ons
isNoteOnOrOff(m) == m.status \in {NoteOnStatus, NoteOffStatus}

\* juce::MidiMessage::isNoteOn(): a note-on status with a non-zero velocity
isNoteOn(m) == m.status = NoteOnStatus /\ m.data2 # 0

\* variant: the note number is used as the track index unreduced
trackIndexUnreduced(midiNote) == midiNote

\* int trackIndex = midiNote % 16
trackIndex(midiNote) == midiNote % NumTracks

\* the loop over midiMessages: one "trackTrigger" call per note-on, in list order
RECURSIVE triggerCalls(_)
triggerCalls(midi) ==
    IF midi = <<>> THEN <<>>
    ELSE (IF isNoteOn(Head(midi))
          THEN <<SetParameterCall("trackTrigger", trackIndex(Head(midi).data1))>>
          ELSE <<>>) \o triggerCalls(Tail(midi))

(***************************************************************************)
(* Persisted state.  A block of bytes is modelled by its encoding and the  *)
(* tree it spells: "binary" is juce::ValueTree::writeToStream's format,    *)
(* "xml" is a well-formed XML document, "truncated" is an XML document cut *)
(* short.                                                                  *)
(***************************************************************************)
Bytes(encoding, type, props) == [encoding |-> encoding, type |-> type, props |-> props]

\* state.setProperty(...) for the sixteen globals and "preset"
\* a tree that also carries the sixteen track volumes
stateTreeAllParams(p, index) ==
    [k \in ParamIds \cup {"preset"} |-> IF k = "preset" THEN index ELSE p[k]]

stateTree(p, index) ==
    [k \in ScalarIdSet \cup {"preset"} |-> IF k = "preset" THEN index ELSE p[k]]

\* state.writeToStream(stream): ValueTree's binary serialisation
writeToStream(type, props) == Bytes("binary", type, props)

\* juce::XmlDocument::parse: an element for well-formed XML text, nullptr otherwise
\* (the binary stream starts with the type name and a NUL, which is not an element)
NoXml == [tag |-> "", attrs |-> <<>>]

XmlParse(data) ==
    IF data.encoding = "xml" THEN [tag |-> data.type, attrs |-> data.props] ELSE NoXml

\* juce::ValueTree::fromXml and ValueTree::isValid
fromXml(xml) == [type |-> xml.tag, props |-> xml.attrs]

isValid(state) == state.type # ""

\* state.getProperty(name, defaultValue)
getProperty(state, name, defaultValue) ==
    IF name \in DOMAIN state.props THEN state.props[name] ELSE defaultValue

\* variant: getProperty without a default, an absent field reads as zero
DecodeDefaultZero == [id \in ScalarIdSet |-> 0]

\* the default literals of setStateInformation's getProperty calls
DecodeDefault ==
    [id \in ScalarIdSet |->
        CASE id = "tempo"          -> 12000
          [] id = "swing"          -> 0
          [] id = "master"         -> 80
          [] id = "patternLength"  -> 1600
          [] id = "pocketOffset"   -> 0
          [] id = "pushOffset"     -> -4
          [] id = "pullOffset"     -> 6
          [] id = "dillaAmount"    -> 60
          [] id = "dillaHatBias"   -> 55
          [] id = "dillaSnareLate" -> 80
          [] id = "dillaKickTight" -> 70
          [] id = "dillaMaxDrift"  -> 15
          [] id = "structure"      -> 50
          [] id = "stereoWidth"    -> 50
          [] id = "roomWidth"      -> 30
          [] OTHER                 -> 70]

\* does setStateInformation enter the decoding branch
Decodes(data) == XmlParse(data) # NoXml /\ isValid(fromXml(XmlParse(data)))

\* variant: the fields are assigned without the parse and validity checks
restoredParamsUnchecked(p, data) ==
    [id \in DOMAIN p |->
        IF id \in ScalarIdSet
        THEN Store(id, getProperty([type |-> data.type, props |-> data.props], id,
                                   DecodeDefault[id]))
        ELSE p[id]]

\* the registry after setStateInformation(data)
restoredParams(p, data) ==
    IF Decodes(data)
    THEN [id \in DOMAIN p |->
            IF id \in ScalarIdSet
            THEN Store(id, getProperty(fromXml(XmlParse(data)), id, DecodeDefault[id]))
            ELSE p[id]]
    ELSE p

\* currentPresetIndex after setStateInformation(data)
restoredPresetIndex(index, data) ==
    IF Decodes(data) THEN getProperty(fromXml(XmlParse(data)), "preset", 0) ELSE index

\* currentPreset after setStateInformation(data)
restoredPreset(preset, index, table, data) ==
    IF Decodes(data) /\ IndexInRange(restoredPresetIndex(index, data), table)
    THEN table[restoredPresetIndex(index, data)]
    ELSE preset

(***************************************************************************)
(* What the host feeds the plugin.                                         *)
(***************************************************************************)
ProgramInputs == {-1, 1, 10}

NameInputs == {"User"}

RenameInputs == {-1, 1, 10}

AutomationInputs == {<<"tempo", 25000>>, <<"trackVolume_3", 20>>}

\* the blocks of the session: a silent one and one with a note-on and a note-off
BlockInputs ==
    {<<>>, <<MidiMessage(NoteOnStatus, 16, 100), MidiMessage(NoteOffStatus, 16, 0)>>}

\* the messages of the MIDI scenario, and every buffer of at most MaxMidiEvents of them
MidiInputs ==
    {MidiMessage(NoteOnStatus, 0, 1), MidiMessage(NoteOnStatus, 16, 100),
     MidiMessage(NoteOnStatus, 127, 64), MidiMessage(NoteOnStatus, 48, 0),
     MidiMessage(NoteOffStatus, 15, 0), MidiMessage(ControllerStatus, 7, 90)}

MidiBuffers == UNION {[1..n -> MidiInputs] : n \in 0..MaxMidiEvents}

\* the program scenario: every index from -1 to 10
AllProgramInputs == -1..10

ProgramAutomationInputs ==
    {<<"tempo", 9500>>, <<"patternLength", 800>>, <<"trackVolume_15", 20>>}

\* a complete document whose scalars differ from preset 1, which it names
XmlFull ==
    Bytes("xml", "state",
          [k \in ScalarIdSet \cup {"preset"} |->
              CASE k = "preset" -> 1
                [] k = "tempo" -> 14000
                [] k = "patternLength" -> 400
                [] k = "roomWidth" -> 90
                [] k = "effectsWidth" -> 10
                [] k \in {"pocketOffset", "pushOffset", "pullOffset"} -> 3
                [] OTHER -> 25])

\* a document with most fields absent and one unknown field
XmlPartial ==
    Bytes("xml", "state",
          [k \in {"tempo", "roomWidth", "preset", "colour"} |->
              CASE k = "tempo" -> 9000 [] k = "roomWidth" -> 55
                [] k = "preset" -> 3 [] OTHER -> 7])

\* a document naming a program that does not exist, with values outside the ranges
XmlBadPreset ==
    Bytes("xml", "state",
          [k \in {"patternLength", "swing", "effectsWidth", "preset"} |->
              CASE k = "patternLength" -> 5000 [] k = "swing" -> -50
                [] k = "effectsWidth" -> 45 [] OTHER -> 10])

\* XmlFull cut short
Truncated == Bytes("truncated", "state", XmlFull.props)

StateInputs == {XmlFull, XmlPartial, XmlBadPreset, Truncated}

SampleRateInputs == {44100}

BlockSizeInputs == {512}

\* the race scenario: the programs selected and the values automated
RaceProgramInputs == {-1, 0, 1, 9}

RaceAutomationInputs == {<<"tempo", 25000>>, <<"swing", 60>>, <<"trackVolume_3", 20>>}

(***************************************************************************)
(* The constructor.                                                        *)
(***************************************************************************)
\* no setCurrentProgram in progress
CtlIdle == [pc |-> "idle", index |-> 0, k |-> 0]

\* the render context has read nothing yet
RtIdle == [seen |-> <<>>, pc |-> "idle", k |-> 0, midi |-> <<>>]

\* the engine, nothing configured yet
NewEngine == [n \in EngineNames |-> Unset]

\* a freshly constructed instance: registry, program, engine configuration
Constructed ==
    [params |-> DefaultParams,
     currentPresetIndex |-> 0,
     currentPreset |-> loadFactoryPresets[0],
     engine |-> applyPresetToDSP(NewEngine, loadFactoryPresets[0])]

Init ==
    /\ params = Constructed.params
    /\ factoryPresets = loadFactoryPresets
    /\ currentPreset = Constructed.currentPreset
    /\ currentPresetIndex = Constructed.currentPresetIndex
    /\ sampleRate = 48000
    /\ engine = Constructed.engine
    /\ prepared = FALSE
    /\ calls = applyPresetCalls(Constructed.currentPreset)
    /\ op = [name |-> "construct"]
    /\ ctl = CtlIdle
    /\ rt = RtIdle

(***************************************************************************)
(* The operations.                                                         *)
(***************************************************************************)
\* the engine's side of the lifecycle: prepare(sampleRate, maxBlockSize) makes
\* it ready to render, reset() returns it to the unprepared resource state
enginePrepare(isPrepared) == TRUE

engineReset(isPrepared) == FALSE

prepareToPlay(newSampleRate, samplesPerBlock) ==
    /\ sampleRate' = newSampleRate
    /\ prepared' = enginePrepare(prepared)
    /\ calls' = <<PrepareCall(newSampleRate, samplesPerBlock)>>
    /\ op' = [name |-> "prepareToPlay"]
    /\ UNCHANGED <<params, factoryPresets, currentPreset, currentPresetIndex,
                   engine>>
    /\ UNCHANGED contexts

releaseResources ==
    /\ prepared' = engineReset(prepared)
    /\ calls' = <<ResetCall>>
    /\ op' = [name |-> "releaseResources"]
    /\ UNCHANGED <<params, factoryPresets, currentPreset, currentPresetIndex,
                   sampleRate, engine>>
    /\ UNCHANGED contexts

\* variant: the MIDI loop runs before the parameter push
processBlockTriggersFirst(midiMessages) ==
    /\ engine' = updateDSPParameters(engine, params)
    /\ calls' = triggerCalls(midiMessages) \o updateDSPCalls(params) \o <<ProcessCall>>
    /\ op' = [name |-> "processBlock", midi |-> midiMessages]
    /\ UNCHANGED <<params, factoryPresets, currentPreset, currentPresetIndex,
                   sampleRate, prepared>>
    /\ UNCHANGED contexts

processBlock(midiMessages) ==
    /\ engine' = updateDSPParameters(engine, params)
    /\ calls' = updateDSPCalls(params) \o triggerCalls(midiMessages) \o <<ProcessCall>>
    /\ op' = [name |-> "processBlock", midi |-> midiMessages]
    /\ UNCHANGED <<params, factoryPresets, currentPreset, currentPresetIndex,
                   sampleRate, prepared>>
    /\ UNCHANGED contexts

\* the host (or its automation) sets one parameter
setParameterValue(id, value) ==
    /\ params' = [params EXCEPT ![id] = atomicStore(params[id], Store(id, value))]
    /\ calls' = <<>>
    /\ op' = [name |-> "setParameterValue", id |-> id, value |-> value]
    /\ UNCHANGED <<factoryPresets, currentPreset, currentPresetIndex, sampleRate,
                   engine, prepared>>
    /\ UNCHANGED contexts

\* variant: selecting a program also resets the parameters no preset owns
setCurrentProgramResetting(index) ==
    /\ IF IndexInRange(index, factoryPresets)
       THEN /\ currentPresetIndex' = index
            /\ currentPreset' = factoryPresets[index]
            /\ engine' = applyPresetToDSP(engine, factoryPresets[index])
            /\ calls' = applyPresetCalls(factoryPresets[index])
            /\ params' = [id \in DOMAIN params |->
                              IF id \in PresetOwnedIds THEN params[id]
                              ELSE Registered[id].def]
       ELSE /\ calls' = <<>>
            /\ UNCHANGED <<currentPresetIndex, currentPreset, engine, params>>
    /\ op' = [name |-> "setCurrentProgram", index |-> index]
    /\ UNCHANGED <<factoryPresets, sampleRate, prepared>>
    /\ UNCHANGED contexts

\* variant: an index outside the table is clamped to the nearest program
setCurrentProgramClamping(index) ==
    /\ LET i == IF index < 0 THEN 0
                ELSE IF index >= Size(factoryPresets) THEN Size(factoryPresets) - 1
                ELSE index
       IN /\ currentPresetIndex' = i
          /\ currentPreset' = factoryPresets[i]
          /\ engine' = applyPresetToDSP(engine, factoryPresets[i])
          /\ calls' = applyPresetCalls(factoryPresets[i])
    /\ op' = [name |-> "setCurrentProgram", index |-> index]
    /\ UNCHANGED <<params, factoryPresets, sampleRate, prepared>>
    /\ UNCHANGED contexts

setCurrentProgram(index) ==
    /\ IF IndexInRange(index, factoryPresets)
       THEN /\ currentPresetIndex' = index
            /\ currentPreset' = factoryPresets[index]
            /\ engine' = applyPresetToDSP(engine, factoryPresets[index])
            /\ calls' = applyPresetCalls(factoryPresets[index])
       ELSE /\ calls' = <<>>
            /\ UNCHANGED <<currentPresetIndex, currentPreset, engine>>
    /\ op' = [name |-> "setCurrentProgram", index |-> index]
    /\ UNCHANGED <<params, factoryPresets, sampleRate, prepared>>
    /\ UNCHANGED contexts

getProgramName(index) ==
    /\ op' = [name |-> "getProgramName", index |-> index,
              result |-> IF IndexInRange(index, factoryPresets)
                         THEN factoryPresets[index].name ELSE ""]
    /\ calls' = <<>>
    /\ UNCHANGED <<params, factoryPresets, currentPreset, currentPresetIndex,
                   sampleRate, engine, prepared>>
    /\ UNCHANGED contexts

\* the two program queries, read off the state
getNumPrograms == Size(factoryPresets)

getCurrentProgram == currentPresetIndex

\* variant: the entry is replaced by a new preset that carries only the name
changeProgramNameReplacing(index, newName) ==
    /\ factoryPresets' =
           IF IndexInRange(index, factoryPresets)
           THEN [factoryPresets EXCEPT
                    ![index] = [f \in DOMAIN factoryPresets[index] |->
                                   IF f = "name" THEN newName ELSE 0]]
           ELSE factoryPresets
    /\ calls' = <<>>
    /\ op' = [name |-> "changeProgramName", index |-> index, newName |-> newName]
    /\ UNCHANGED <<params, currentPreset, currentPresetIndex, sampleRate, engine,
                   prepared>>
    /\ UNCHANGED contexts

\* variant: the index is ignored and every entry takes the name
changeProgramNameAll(index, newName) ==
    /\ factoryPresets' =
           IF IndexInRange(index, factoryPresets)
           THEN [i \in DOMAIN factoryPresets |->
                    [factoryPresets[i] EXCEPT !.name = newName]]
           ELSE factoryPresets
    /\ calls' = <<>>
    /\ op' = [name |-> "changeProgramName", index |-> index, newName |-> newName]
    /\ UNCHANGED <<params, currentPreset, currentPresetIndex, sampleRate, engine,
                   prepared>>
    /\ UNCHANGED contexts

changeProgramName(index, newName) ==
    /\ factoryPresets' =
           IF IndexInRange(index, factoryPresets)
           THEN [factoryPresets EXCEPT ![index].name = newName]
           ELSE factoryPresets
    /\ calls' = <<>>
    /\ op' = [name |-> "changeProgramName", index |-> index, newName |-> newName]
    /\ UNCHANGED <<params, currentPreset, currentPresetIndex, sampleRate, engine,
                   prepared>>
    /\ UNCHANGED contexts

\* destData, the host's block, is the result of the call
getStateInformation ==
    /\ op' = [name |-> "getStateInformation",
              destData |-> writeToStream("state", stateTree(params, currentPresetIndex))]
    /\ calls' = <<>>
    /\ UNCHANGED <<params, factoryPresets, currentPreset, currentPresetIndex,
                   sampleRate, engine, prepared>>
    /\ UNCHANGED contexts

setStateInformation(data) ==
    /\ params' = restoredParams(params, data)
    /\ currentPresetIndex' = restoredPresetIndex(currentPresetIndex, data)
    /\ currentPreset' = restoredPreset(currentPreset, currentPresetIndex, factoryPresets, data)
    /\ engine' = applyPresetToDSP(engine, currentPreset')
    /\ calls' = applyPresetCalls(currentPreset')
    /\ op' = [name |-> "setStateInformation", data |-> data]
    /\ UNCHANGED <<factoryPresets, sampleRate, prepared>>
    /\ UNCHANGED contexts

\* the block the host hands back right after a save
SavedBlocks == IF op.name = "getStateInformation" THEN {op.destData} ELSE {}

\* the host reloads the session: it constructs a second instance and calls
\* setStateInformation on it with the block getStateInformation just filled;
\* fresh is that second instance afterwards
restoreIntoFresh ==
    /\ op.name = "getStateInformation"
    /\ op' = [name |-> "restoreIntoFresh",
              data |-> op.destData,
              fresh |-> [params |-> restoredParams(Constructed.params, op.destData),
                         currentPresetIndex |->
                             restoredPresetIndex(Constructed.currentPresetIndex, op.destData)]]
    /\ UNCHANGED <<params, factoryPresets, currentPreset, currentPresetIndex,
                   sampleRate, engine, prepared, calls>>
    /\ UNCHANGED contexts

Next ==
    \/ \E sr \in SampleRateInputs, n \in BlockSizeInputs : prepareToPlay(sr, n)
    \/ releaseResources
    \/ \E midi \in BlockInputs : processBlock(midi)
    \/ \E a \in AutomationInputs : setParameterValue(a[1], a[2])
    \/ \E index \in ProgramInputs : setCurrentProgram(index)
    \/ \E index \in ProgramInputs : getProgramName(index)
    \/ \E index \in RenameInputs, n \in NameInputs : changeProgramName(index, n)
    \/ getStateInformation
    \/ \E data \in StateInputs \cup SavedBlocks : setStateInformation(data)
    \/ restoreIntoFresh

Spec == Init /\ [][Next]_vars

(***************************************************************************)
(* The program scenario: the host walks the whole program interface, every *)
(* index from -1 to 10, between automation writes.                         *)
(***************************************************************************)
Renamed == {i \in DOMAIN factoryPresets : factoryPresets[i].name # loadFactoryPresets[i].name}

NextProgram ==
    \/ \E index \in AllProgramInputs : setCurrentProgram(index)
    \/ \E index \in AllProgramInputs : getProgramName(index)
    \/ \E index \in AllProgramInputs, n \in NameInputs :
          /\ index \in Renamed \/ Cardinality(Renamed) < MaxRenamed
          /\ changeProgramName(index, n)
    \/ \E a \in ProgramAutomationInputs : setParameterValue(a[1], a[2])

ProgramSpec == Init /\ [][NextProgram]_vars

(***************************************************************************)
(* The renaming scenario: the host renames programs, with a new name and   *)
(* with a name another program already has, and reads names back, around a *)
(* program change and an automation write.                                 *)
(***************************************************************************)
RenameNameInputs == {"User", "Basic 808"}
RenameProgramInputs == {1}
RenameAutomationInputs == {<<"tempo", 9500>>}

NextRename ==
    \/ \E index \in AllProgramInputs, n \in RenameNameInputs :
          /\ index \in Renamed \/ Cardinality(Renamed) < MaxRenamed
          /\ changeProgramName(index, n)
    \/ \E index \in AllProgramInputs : getProgramName(index)
    \/ \E index \in RenameProgramInputs : setCurrentProgram(index)
    \/ \E a \in RenameAutomationInputs : setParameterValue(a[1], a[2])

RenameSpec == Init /\ [][NextRename]_vars

(***************************************************************************)
(* The MIDI scenario: render blocks with every buffer of MidiBuffers.      *)
(***************************************************************************)
NextMidi ==
    \/ \E midi \in MidiBuffers : processBlock(midi)
    \/ \E a \in AutomationInputs : setParameterValue(a[1], a[2])

MidiSpec == Init /\ [][NextMidi]_vars

(***************************************************************************)
(* The race scenario: one setCurrentProgram on the control context, run    *)
(* statement by statement, against automation writes and cell reads on the *)
(* render context.  No lock is taken on either side.                       *)
(***************************************************************************)
\* setCurrentProgram, line 178: the index check
ctlCall(index) ==
    /\ ctl.pc = "idle"
    /\ ctl' = IF IndexInRange(index, factoryPresets)
              THEN [pc |-> "assignIndex", index |-> index, k |-> 0]
              ELSE [pc |-> "done", index |-> index, k |-> 0]
    /\ op' = [name |-> "setCurrentProgram", index |-> index]
    /\ UNCHANGED <<params, factoryPresets, currentPreset, currentPresetIndex,
                   sampleRate, engine, prepared, calls, rt>>

\* line 180
ctlAssignIndex ==
    /\ ctl.pc = "assignIndex"
    /\ currentPresetIndex' = ctl.index
    /\ ctl' = [ctl EXCEPT !.pc = "copyPreset"]
    /\ UNCHANGED <<params, factoryPresets, currentPreset, sampleRate, engine,
                   prepared, calls, op, rt>>

\* line 181
ctlCopyPreset ==
    /\ ctl.pc = "copyPreset"
    /\ currentPreset' = factoryPresets[ctl.index]
    /\ ctl' = [ctl EXCEPT !.pc = "apply", !.k = 1]
    /\ UNCHANGED <<params, factoryPresets, currentPresetIndex, sampleRate, engine,
                   prepared, calls, op, rt>>

\* applyPresetToDSP, one drumMachine.setParameter call of lines 485-497
ctlApply ==
    /\ ctl.pc = "apply"
    /\ engine' = [engine EXCEPT ![PresetFields[ctl.k]] = currentPreset[PresetFields[ctl.k]]]
    /\ calls' = <<applyPresetCalls(currentPreset)[ctl.k]>>
    /\ ctl' = IF ctl.k = Len(PresetFields)
              THEN [ctl EXCEPT !.pc = "done"]
              ELSE [ctl EXCEPT !.k = ctl.k + 1]
    /\ UNCHANGED <<params, factoryPresets, currentPreset, currentPresetIndex,
                   sampleRate, prepared, op, rt>>

\* host automation on the render context: one atomic store into one cell
rtSet(id, value) ==
    /\ params' = [params EXCEPT ![id] = atomicStore(params[id], Store(id, value))]
    /\ UNCHANGED <<factoryPresets, currentPreset, currentPresetIndex, sampleRate,
                   engine, prepared, calls, op, ctl, rt>>

\* the render context reads one cell, as each ->get() of updateDSPParameters does
rtGet(id) ==
    /\ rt' = [rt EXCEPT !.seen = <<id, atomicLoad(params[id])>>]
    /\ UNCHANGED <<params, factoryPresets, currentPreset, currentPresetIndex,
                   sampleRate, engine, prepared, calls, op, ctl>>

NextRace ==
    \/ \E index \in RaceProgramInputs : ctlCall(index)
    \/ ctlAssignIndex
    \/ ctlCopyPreset
    \/ ctlApply
    \/ \E a \in RaceAutomationInputs : rtSet(a[1], a[2])
    \/ \E id \in ParamIds : rtGet(id)

RaceSpec == Init /\ [][NextRace]_vars

(***************************************************************************)
(* The render scenario: blocks run on the render context one engine call   *)
(* at a time while the control context makes one call, setCurrentProgram,  *)
(* setStateInformation, getStateInformation or changeProgramName, one      *)
(* statement at a time.  Neither path acquires a lock: no step of one      *)
(* context has a guard on the other context's position.                    *)
(***************************************************************************)
RenderProgramInputs == {-1, 1}
RenderStateInputs == {XmlBadPreset, Truncated}
RenderRenameInputs == {<<1, "User">>, <<10, "User">>}
RenderBlockInputs ==
    {<<MidiMessage(NoteOnStatus, 16, 100), MidiMessage(NoteOffStatus, 16, 0)>>}

\* the id the k-th call of updateDSPParameters pushes
PushId(k) ==
    IF k <= Len(ScalarIds) THEN ScalarIds[k] ELSE TrackVolumeId(k - Len(ScalarIds) - 1)

\* setStateInformation entered: lines 230-236, the parse and the validity test
ctlRestoreCall(data) ==
    /\ ctl.pc = "idle"
    /\ ctl' = IF Decodes(data)
              THEN [pc |-> "assignParam", index |-> 0, k |-> 1]
              ELSE [pc |-> "apply", index |-> 0, k |-> 1]
    /\ op' = [name |-> "setStateInformation", data |-> data]
    /\ UNCHANGED <<params, factoryPresets, currentPreset, currentPresetIndex,
                   sampleRate, engine, prepared, calls, rt>>

\* one of the sixteen assignments of lines 238-253
ctlAssignParam ==
    /\ ctl.pc = "assignParam"
    /\ LET id == ScalarIds[ctl.k]
           v == getProperty(fromXml(XmlParse(op.data)), id, DecodeDefault[id])
       IN params' = [params EXCEPT ![id] = atomicStore(params[id], Store(id, v))]
    /\ ctl' = IF ctl.k = Len(ScalarIds)
              THEN [ctl EXCEPT !.pc = "restoreIndex"]
              ELSE [ctl EXCEPT !.k = ctl.k + 1]
    /\ UNCHANGED <<factoryPresets, currentPreset, currentPresetIndex, sampleRate,
                   engine, prepared, calls, op, rt>>

\* line 255 and the range test of line 257
ctlRestoreIndex ==
    /\ ctl.pc = "restoreIndex"
    /\ currentPresetIndex' = getProperty(fromXml(XmlParse(op.data)), "preset", 0)
    /\ ctl' = IF IndexInRange(currentPresetIndex', factoryPresets)
              THEN [pc |-> "copyPreset", index |-> currentPresetIndex', k |-> 0]
              ELSE [pc |-> "apply", index |-> currentPresetIndex', k |-> 1]
    /\ UNCHANGED <<params, factoryPresets, currentPreset, sampleRate, engine,
                   prepared, calls, op, rt>>

\* getStateInformation entered
ctlSaveCall ==
    /\ ctl.pc = "idle"
    /\ ctl' = [pc |-> "save", index |-> 0, k |-> 0]
    /\ UNCHANGED <<params, factoryPresets, currentPreset, currentPresetIndex,
                   sampleRate, engine, prepared, calls, op, rt>>

\* lines 203-225: the tree is filled from the registry and written to destData
ctlSave ==
    /\ ctl.pc = "save"
    /\ op' = [name |-> "getStateInformation",
              destData |-> writeToStream("state", stateTree(params, currentPresetIndex))]
    /\ ctl' = [ctl EXCEPT !.pc = "done"]
    /\ UNCHANGED <<params, factoryPresets, currentPreset, currentPresetIndex,
                   sampleRate, engine, prepared, calls, rt>>

\* changeProgramName entered: the range test of line 196
ctlRenameCall(index, newName) ==
    /\ ctl.pc = "idle"
    /\ ctl' = IF IndexInRange(index, factoryPresets)
              THEN [pc |-> "rename", index |-> index, k |-> 0]
              ELSE [pc |-> "done", index |-> index, k |-> 0]
    /\ op' = [name |-> "changeProgramName", index |-> index, newName |-> newName]
    /\ UNCHANGED <<params, factoryPresets, currentPreset, currentPresetIndex,
                   sampleRate, engine, prepared, calls, rt>>

\* line 197
ctlRename ==
    /\ ctl.pc = "rename"
    /\ factoryPresets' = [factoryPresets EXCEPT ![ctl.index].name = op.newName]
    /\ ctl' = [ctl EXCEPT !.pc = "done"]
    /\ UNCHANGED <<params, currentPreset, currentPresetIndex, sampleRate, engine,
                   prepared, calls, op, rt>>

\* processBlock entered: lines 91-97, the unused output channels are cleared
rtBegin(midiMessages) ==
    /\ rt.pc = "idle"
    /\ rt' = [rt EXCEPT !.pc = "push", !.k = 1, !.midi = midiMessages]
    /\ UNCHANGED <<params, factoryPresets, currentPreset, currentPresetIndex,
                   sampleRate, engine, prepared, calls, op, ctl>>

\* variant: the push takes a registry-wide lock, which the control context
\* holds from the entry of its operation to its return
rtPushLocked ==
    /\ rt.pc = "push"
    /\ ctl.pc \in {"idle", "done"}
    /\ engine' = [engine EXCEPT ![EngineName(PushId(rt.k))] = atomicLoad(params[PushId(rt.k)])]
    /\ calls' = <<SetParameterCall(EngineName(PushId(rt.k)), atomicLoad(params[PushId(rt.k)]))>>
    /\ rt' = IF rt.k = Len(ScalarIds) + NumTracks
             THEN [rt EXCEPT !.pc = "midi", !.k = 1]
             ELSE [rt EXCEPT !.k = rt.k + 1]
    /\ UNCHANGED <<params, factoryPresets, currentPreset, currentPresetIndex,
                   sampleRate, prepared, op, ctl>>

\* one drumMachine.setParameter call of updateDSPParameters: the cell is read
\* with ->get() and pushed
rtPush ==
    /\ rt.pc = "push"
    /\ engine' = [engine EXCEPT ![EngineName(PushId(rt.k))] = atomicLoad(params[PushId(rt.k)])]
    /\ calls' = <<SetParameterCall(EngineName(PushId(rt.k)), atomicLoad(params[PushId(rt.k)]))>>
    /\ rt' = IF rt.k = Len(ScalarIds) + NumTracks
             THEN [rt EXCEPT !.pc = "midi", !.k = 1]
             ELSE [rt EXCEPT !.k = rt.k + 1]
    /\ UNCHANGED <<params, factoryPresets, currentPreset, currentPresetIndex,
                   sampleRate, prepared, op, ctl>>

\* one turn of the loop over midiMessages, or its exit
rtMidi ==
    /\ rt.pc = "midi"
    /\ IF rt.k > Len(rt.midi)
       THEN /\ rt' = [rt EXCEPT !.pc = "render", !.k = 0]
            /\ UNCHANGED calls
       ELSE /\ rt' = [rt EXCEPT !.k = rt.k + 1]
            /\ calls' = IF isNoteOn(rt.midi[rt.k])
                        THEN <<SetParameterCall("trackTrigger",
                                                trackIndex(rt.midi[rt.k].data1))>>
                        ELSE calls
    /\ UNCHANGED <<params, factoryPresets, currentPreset, currentPresetIndex,
                   sampleRate, engine, prepared, op, ctl>>

\* drumMachine.process and the return of processBlock
rtRender ==
    /\ rt.pc = "render"
    /\ calls' = <<ProcessCall>>
    /\ rt' = [rt EXCEPT !.pc = "idle", !.k = 0, !.midi = <<>>]
    /\ UNCHANGED <<params, factoryPresets, currentPreset, currentPresetIndex,
                   sampleRate, engine, prepared, op, ctl>>

\* the next step of the block in progress
rtStep == rtPush \/ rtMidi \/ rtRender

NextRender ==
    \/ \E index \in RenderProgramInputs : ctlCall(index)
    \/ ctlAssignIndex
    \/ ctlCopyPreset
    \/ ctlApply
    \/ \E data \in RenderStateInputs : ctlRestoreCall(data)
    \/ ctlAssignParam
    \/ ctlRestoreIndex
    \/ ctlSaveCall
    \/ ctlSave
    \/ \E r \in RenderRenameInputs : ctlRenameCall(r[1], r[2])
    \/ ctlRename
    \/ \E midi \in RenderBlockInputs : rtBegin(midi)
    \/ rtPush
    \/ rtMidi
    \/ rtRender

RenderSpec == Init /\ [][NextRender]_vars

\* the host's audio thread runs the callback it entered: a block in progress
\* takes its next step
RenderFairSpec == RenderSpec /\ WF_vars(rtStep)

(***************************************************************************)
(* Properties.                                                             *)
(***************************************************************************)
\* the parameters no preset owns
NonPresetIds == {"patternLength", "roomWidth", "effectsWidth"} \cup TrackVolumeIds

ProgramOps == {"setCurrentProgram", "getProgramName", "changeProgramName"}

\* C1: after setCurrentProgram(i) with i in 0..9, each of the 13 registry cells a
\* preset owns holds preset i's value.
C1_PresetWrittenToRegistry ==
    (op.name = "setCurrentProgram" /\ op.index \in 0..9)
        => \A f \in PresetFieldSet : params[RegistryId(f)] = factoryPresets[op.index][f]

\* C2: setCurrentProgram(i), for any i, leaves patternLength, roomWidth,
\* effectsWidth and the 16 track volumes of the registry as they were.
C2_NonPresetCellsUntouched ==
    [][op'.name = "setCurrentProgram"
          => \A id \in NonPresetIds : params'[id] = params[id]]_vars

C2_Witness ==
    /\ op.name = "setCurrentProgram"
    /\ op.index \in 0..9
    /\ params["patternLength"] # Registered["patternLength"].def
    /\ params["trackVolume_15"] # Registered["trackVolume_15"].def

\* C3: the block getStateInformation fills is accepted by setStateInformation on
\* a freshly constructed instance and leaves that instance's 16 scalar registry
\* cells equal to the saving instance's.
C3_RoundTrip ==
    op.name = "restoreIntoFresh"
        => /\ Decodes(op.data)
           /\ \A id \in ScalarIdSet : op.fresh.params[id] = params[id]

\* C4: setStateInformation on bytes that do not parse leaves the registry, the
\* current program index and the preset table exactly as they were.
C4_FailedDecodeKeepsState ==
    [][(op'.name = "setStateInformation" /\ op'.data.encoding # "xml")
          => /\ params' = params
             /\ currentPresetIndex' = currentPresetIndex
             /\ factoryPresets' = factoryPresets]_vars

C4_Witness ==
    /\ op.name = "setStateInformation"
    /\ op.data.encoding = "truncated"
    /\ params["tempo"] # op.data.props["tempo"]
    /\ params["roomWidth"] # Registered["roomWidth"].def
    /\ currentPresetIndex # 0

\* C5: after setStateInformation with a well-formed state whose preset index is in
\* 0..9, the 13 preset-owned registry cells hold that preset's values, and
\* patternLength, roomWidth and effectsWidth hold the decoded values.
C5_PresetReappliedOntoRegistry ==
    (/\ op.name = "setStateInformation"
     /\ op.data.encoding = "xml"
     /\ "preset" \in DOMAIN op.data.props
     /\ op.data.props["preset"] \in 0..9)
        => /\ \A f \in PresetFieldSet :
                 params[RegistryId(f)] = factoryPresets[op.data.props["preset"]][f]
           /\ \A id \in {"patternLength", "roomWidth", "effectsWidth"} :
                 id \in DOMAIN op.data.props => params[id] = op.data.props[id]

\* C6: after setStateInformation with a well-formed state, a scalar field absent
\* from it holds the default its parameter was registered with (the same as the
\* decode default), a present one holds the decoded value snapped into its range,
\* and nothing else of the registry or the preset table changes.
C6_MissingFieldsTakeDefaults ==
    [][/\ \A id \in ScalarIdSet : DecodeDefault[id] = Registered[id].def
       /\ (op'.name = "setStateInformation" /\ op'.data.encoding = "xml")
             => /\ \A id \in ScalarIdSet :
                      params'[id] = IF id \in DOMAIN op'.data.props
                                    THEN Store(id, op'.data.props[id])
                                    ELSE Registered[id].def
                /\ \A id \in TrackVolumeIds : params'[id] = params[id]
                /\ factoryPresets' = factoryPresets]_vars

C6_Witness ==
    /\ op.name = "setStateInformation"
    /\ op.data.encoding = "xml"
    /\ "colour" \in DOMAIN op.data.props
    /\ "swing" \notin DOMAIN op.data.props
    /\ params["roomWidth"] = 55
    /\ params["trackVolume_3"] # Registered["trackVolume_3"].def

\* C7: setCurrentProgram, getProgramName and changeProgramName with an index below
\* 0 or above 9 change nothing: table of 10 unchanged, current program unchanged,
\* registry unchanged, no engine call; getProgramName returns the empty name.
C7_InvalidIndexNoOp ==
    [][(op'.name \in ProgramOps /\ op'.index \notin 0..9)
          => /\ factoryPresets' = factoryPresets
             /\ Size(factoryPresets') = 10
             /\ currentPresetIndex' = currentPresetIndex
             /\ currentPreset' = currentPreset
             /\ params' = params
             /\ engine' = engine
             /\ calls' = <<>>
             /\ (op'.name = "getProgramName" => op'.result = "")]_vars

C7_Witness ==
    /\ op.name \in ProgramOps
    /\ op.index \in {-1, 10}
    /\ currentPresetIndex # 0
    /\ Renamed # {}
    /\ params # DefaultParams

IsTrigger(c) == c.fn = "setParameter" /\ c.name = "trackTrigger"

IsNoteOnMessage(m) == m.status = 144 /\ m.data2 > 0

\* C8: a processBlock issues one track trigger per note-on message, in order,
\* addressed to note mod 16, which lies in 0..15, and none for any other message.
C8_TriggerPerNoteOn ==
    /\ \A n \in 0..127 : trackIndex(n) \in 0..15 /\ (n - trackIndex(n)) % 16 = 0
    /\ op.name = "processBlock"
          => LET triggers == SelectSeq(calls, IsTrigger)
                 noteOns == SelectSeq(op.midi, IsNoteOnMessage)
             IN /\ Len(triggers) = Len(noteOns)
                /\ \A k \in 1..Len(triggers) :
                      /\ triggers[k].value = noteOns[k].data1 % 16
                      /\ triggers[k].value \in 0..15

C8_Witness ==
    /\ op.name = "processBlock"
    /\ Len(op.midi) = 2
    /\ op.midi[1].status = 128
    /\ op.midi[2] = MidiMessage(144, 127, 64)
    /\ Len(SelectSeq(calls, IsTrigger)) = 1

\* the values the writers of the race store into a cell: the constructor's
\* default, the automated values as stored, and the selected preset's value
RaceAllowed(id) ==
    {DefaultParams[id]}
      \cup {Store(id, a[2]) : a \in {b \in RaceAutomationInputs : b[1] = id}}
      \cup (IF ctl.pc # "idle" /\ ctl.index \in 0..9 /\ id \in PresetOwnedIds
            THEN {loadFactoryPresets[ctl.index][EngineName(id)]} ELSE {})

\* C9: while automation stores on the render context interleave with one
\* setCurrentProgram on the control context, every cell holds, and every read
\* returns, a value one of the writers stored in that cell: never a mixed one.
C9_NoTornValue ==
    /\ \A id \in ParamIds : params[id] \in RaceAllowed(id)
    /\ rt.seen # <<>> => rt.seen[2] \in RaceAllowed(rt.seen[1])

C9_Witness ==
    /\ ctl.pc = "apply"
    /\ ctl.k = 7
    /\ rt.seen = <<"swing", 60>>
    /\ params["tempo"] = 20000

\* C10: in every reachable state the preset table holds exactly 10 presets whose
\* 13 numeric fields equal the factory literals; only names can differ.
C10_TableFixed ==
    /\ Size(factoryPresets) = 10
    /\ DOMAIN factoryPresets = 0..9
    /\ \A i \in 0..9 : \A f \in PresetFieldSet :
          factoryPresets[i][f] = loadFactoryPresets[i][f]

C10_Witness ==
    /\ Renamed # {}
    /\ op.name = "setStateInformation"
    /\ currentPresetIndex = 3
    /\ prepared

\* C11: track volumes are not persisted: the block getStateInformation fills has
\* no track-volume field, setStateInformation leaves all sixteen trackVolume
\* cells as they were whatever bytes it is given, and after a save followed by a
\* restore into a fresh instance every track volume of that instance is the
\* default 0.8, whatever the track volumes were when the state was saved.
C11_TrackVolumesNotPersisted ==
    [][ /\ op'.name = "getStateInformation"
            => DOMAIN op'.destData.props \cap TrackVolumeIds = {}
        /\ op'.name = "setStateInformation"
            => \A id \in TrackVolumeIds : params'[id] = params[id]
        /\ op'.name = "restoreIntoFresh"
            => \A i \in 0..(NumTracks - 1) : op'.fresh.params[TrackVolumeId(i)] = 80
      ]_vars

\* a session saved with track 3 turned down to 0.2 was restored into a fresh instance
C11_Witness ==
    /\ op.name = "restoreIntoFresh"
    /\ params["trackVolume_3"] = 20
    /\ op.fresh.params["trackVolume_3"] = 80

\* the value nearest to v inside [lo, hi]
Nearest(lo, hi, v) == IF v < lo THEN lo ELSE IF v > hi THEN hi ELSE v

\* C12: in every reachable state every registry value lies within the declared
\* [min, max] of its parameter: an automation set or a restore that carries an
\* out-of-range value stores the nearest bound, and every factory preset value
\* lies inside the range of the parameter it targets.
C12_RegistryWithinRanges ==
    /\ \A id \in ParamIds :
          Registered[id].min <= params[id] /\ params[id] <= Registered[id].max
    /\ op.name = "setParameterValue"
          => params[op.id] = Nearest(Registered[op.id].min, Registered[op.id].max, op.value)
    /\ (op.name = "setStateInformation" /\ op.data.encoding = "xml")
          => \A id \in ScalarIdSet \cap DOMAIN op.data.props :
                params[id] = Nearest(Registered[id].min, Registered[id].max,
                                     op.data.props[id])
    /\ \A i \in DOMAIN factoryPresets : \A f \in PresetFieldSet :
          /\ Registered[RegistryId(f)].min <= factoryPresets[i][f]
          /\ factoryPresets[i][f] <= Registered[RegistryId(f)].max

\* a restore carried patternLength 50 and swing -0.5: the bounds 16 and 0 were stored
C12_Witness ==
    /\ op.name = "setStateInformation"
    /\ op.data.encoding = "xml"
    /\ "patternLength" \in DOMAIN op.data.props
    /\ op.data.props["patternLength"] > Registered["patternLength"].max
    /\ op.data.props["swing"] < Registered["swing"].min
    /\ params["patternLength"] = 1600
    /\ params["swing"] = 0

\* C13: for every valid index i and name n, changeProgramName(i, n) followed by
\* getProgramName(i) returns n; the rename changes no other preset's name, no
\* numeric field of any preset, no registry value and not the current program index.
C13_RenameReadBack ==
    [][ /\ (op'.name = "changeProgramName" /\ IndexInRange(op'.index, factoryPresets))
            => /\ DOMAIN factoryPresets' = DOMAIN factoryPresets
               /\ factoryPresets'[op'.index].name = op'.newName
               /\ \A j \in DOMAIN factoryPresets :
                     j # op'.index => factoryPresets'[j].name = factoryPresets[j].name
               /\ \A j \in DOMAIN factoryPresets : \A f \in PresetFieldSet :
                     factoryPresets'[j][f] = factoryPresets[j][f]
               /\ params' = params
               /\ currentPresetIndex' = currentPresetIndex
        /\ (/\ op.name = "changeProgramName"
            /\ IndexInRange(op.index, factoryPresets)
            /\ op'.name = "getProgramName"
            /\ op'.index = op.index)
            => op'.result = op.newName
      ]_vars

\* program 1, selected and automated, was renamed and its name read back
C13_Witness ==
    /\ op.name = "getProgramName"
    /\ op.index = 1
    /\ op.result = "User"
    /\ currentPresetIndex = 1
    /\ params["tempo"] = 9500
    /\ factoryPresets[0].name = "Basic 808"

\* C14: right after construction the factory table has "Basic 808" at index 0
\* (tempo 120, swing 0, dillaAmount 0, dillaKickTight 0.9, structure 0.3) and
\* "J Dilla Style" at index 1 (tempo 95, swing 0.6, dillaAmount 0.7,
\* dillaSnareLate 0.9, structure 0.6), and loading the factory table again, on
\* whatever table the instance has by then, yields the same ten entries, not twenty.
C14_FactoryTable ==
    /\ op.name = "construct"
          => /\ Size(factoryPresets) = 10
             /\ factoryPresets[0].name = "Basic 808"
             /\ factoryPresets[0].tempo = 12000
             /\ factoryPresets[0].swing = 0
             /\ factoryPresets[0].dillaAmount = 0
             /\ factoryPresets[0].dillaKickTight = 90
             /\ factoryPresets[0].structure = 30
             /\ factoryPresets[1].name = "J Dilla Style"
             /\ factoryPresets[1].tempo = 9500
             /\ factoryPresets[1].swing = 60
             /\ factoryPresets[1].dillaAmount = 70
             /\ factoryPresets[1].dillaSnareLate = 90
             /\ factoryPresets[1].structure = 60
             /\ loadFactoryPresetsInto(<<>>) = factoryPresets
    /\ Size(loadFactoryPresetsInto(factoryPresets)) = 10
    /\ loadFactoryPresetsInto(factoryPresets) = loadFactoryPresets

\* the instance as the constructor leaves it, its table loaded once
C14_Witness ==
    /\ op.name = "construct"
    /\ Size(factoryPresets) = 10
    /\ factoryPresets[1].name = "J Dilla Style"
    /\ loadFactoryPresetsInto(factoryPresets) = factoryPresets

\* C15: after setCurrentProgram(i) with a valid i and then one complete
\* processBlock, with no automation write in between, the engine's configured
\* value of each of the thirteen preset-owned parameters is preset i's value.
C15_EngineHoldsPresetAfterBlock ==
    [][ (/\ op.name = "setCurrentProgram"
         /\ IndexInRange(op.index, factoryPresets)
         /\ op'.name = "processBlock")
        => \A f \in PresetFieldSet : engine'[f] = factoryPresets[op.index][f]
      ]_vars

\* C16: every processBlock pushes every registered parameter to the engine:
\* after any processBlock the engine's value of each of the 32 parameters equals
\* the registry's current value, and the block made a set-parameter call with
\* that value for each of them.
C16_BlockPushesRegistry ==
    op.name = "processBlock"
        => /\ Cardinality(ParamIds) = 32
           /\ \A id \in ParamIds :
                 /\ engine[EngineName(id)] = params[id]
                 /\ \E k \in DOMAIN calls :
                       calls[k] = SetParameterCall(EngineName(id), params[id])

\* a block ran after automation moved a global and a track volume and after a
\* program change had configured the engine with other values
C16_Witness ==
    /\ op.name = "processBlock"
    /\ params["tempo"] = 20000
    /\ params["trackVolume_3"] = 20
    /\ currentPresetIndex = 1
    /\ engine["tempo"] = 20000
    /\ engine["trackVolume_3"] = 20

\* C17: within one processBlock the engine calls come in this order: all 32
\* parameter pushes, then the note-on triggers in event-list order, then exactly
\* one render call, and nothing after the render.
C17_BlockCallOrder ==
    op.name = "processBlock"
        => LET noteOns == SelectSeq(op.midi, IsNoteOnMessage)
               pushes == Cardinality(ParamIds)
           IN  /\ Len(calls) = pushes + Len(noteOns) + 1
               /\ \A k \in 1..pushes :
                     /\ calls[k].fn = "setParameter"
                     /\ calls[k].name \in EngineNames
               /\ \A k \in 1..Len(noteOns) :
                     calls[pushes + k] =
                         SetParameterCall("trackTrigger", noteOns[k].data1 % 16)
               /\ calls[Len(calls)] = ProcessCall
               /\ \A k \in 1..(Len(calls) - 1) : calls[k].fn # "process"

\* a block with two note-ons for different tracks: 32 pushes, the two triggers
\* in the order of the events, then the render
C17_Witness ==
    /\ op.name = "processBlock"
    /\ Len(SelectSeq(op.midi, IsNoteOnMessage)) = 2
    /\ Len(calls) = 35
    /\ calls[33] = SetParameterCall("trackTrigger", 15)
    /\ calls[34] = SetParameterCall("trackTrigger", 0)
    /\ calls[35] = ProcessCall

\* C18: a setStateInformation whose bytes do not decode to a valid state is a
\* complete no-op: it makes no configuration call to the engine, so every
\* engine parameter value is the same after the call as before it.
C18_FailedDecodeNoEngineCall ==
    [][ (op'.name = "setStateInformation" /\ ~Decodes(op'.data))
        => /\ calls' = <<>>
           /\ engine' = engine
      ]_vars

\* C19: the engine's render is never invoked on an unprepared engine: a
\* processBlock that arrives before the first prepareToPlay, or after
\* releaseResources, makes no render call.
C19_NoRenderWhenUnprepared ==
    (op.name = "processBlock" /\ ~prepared)
        => \A k \in DOMAIN calls : calls[k].fn # "process"

\* C20: getCurrentProgram() always returns an index in [0, getNumPrograms());
\* in particular restoring a well-formed state whose preset field is out of
\* range does not leave the current program index out of range.
C20_CurrentProgramInRange ==
    /\ getCurrentProgram >= 0
    /\ getCurrentProgram < getNumPrograms

\* C21: the render context never waits on the control context: at whatever
\* point setCurrentProgram, setStateInformation, getStateInformation or
\* changeProgramName is in progress, the next step of a processBlock in
\* progress (a parameter push, a turn of the MIDI loop, the render) is enabled,
\* and the block runs to completion.
C21_RenderNeverWaits ==
    /\ [](rt.pc = "push" => ENABLED rtPush)
    /\ [](rt.pc = "midi" => ENABLED rtMidi)
    /\ [](rt.pc = "render" => ENABLED rtRender)
    /\ [](rt.pc \in {"idle", "push", "midi", "render"})
    /\ (rt.pc # "idle") ~> (rt.pc = "idle")

\* a block is in the middle of its pushes while setStateInformation is in the
\* middle of its sixteen registry assignments
C21_Witness ==
    /\ rt.pc = "push"
    /\ rt.k = 9
    /\ ctl.pc = "assignParam"
    /\ ctl.k = 5
    /\ op.name = "setStateInformation"

====
